---- MODULE Spec2Model ----
(***************************************************************************)
(* Model of the Planner pipe (src/functions/planner.py): the plan          *)
(* scheduler Pipe.execute_plan and the action executor                     *)
(* Pipe.execute_action, and around them Pipe.pipe with the plan compiler   *)
(* Pipe.create_plan and the synthesizer Pipe.synthesize_results.           *)
(* execute_plan awaits every execute_action call inline, so there is one   *)
(* control flow; pc is its position.  The Generation Client is the         *)
(* environment: a streamed generation either returns a text or fails, an   *)
(* evaluation either answers or fails.                                     *)
(***************************************************************************)
EXTENDS Integers, Sequences, FiniteSets

\* ---------------------------------------------------------------- bounds
MaxRetriesBound == 1
MaxConcurrent == 2
MaxDeps == 2
PipeRetriesBound == 2

\* ------------------------------------------------------------ plan inputs
\* The plan compiler asks the generator for "id": "<unique_id>": the ids of a
\* plan are distinct.  They are named in declared order; "Z" is an id that no
\* action carries.
IdNames == <<"A", "B", "C">>
ActionIds == {IdNames[k] : k \in 1..Len(IdNames)}
DepIds == ActionIds \cup {"Z"}

\* Action.dependencies: ids, not validated against the plan (an id may be
\* unknown, the action's own, or close a cycle).
Dependencies == {d \in SUBSET DepIds : Cardinality(d) <= MaxDeps}

\* Plan.actions, in declared order: the immutable fields id and dependencies.
Plan ==
    UNION {{s \in [1..n -> [id : ActionIds, dependencies : Dependencies]] :
               \A k \in 1..n : s[k].id = IdNames[k]} : n \in 0..Len(IdNames)}

\* The evaluator's answers after .strip().lower(): "yes", "no", anything else.
Answers == {"yes", "no", "other"}

VARIABLES
    plan,                \* plan.actions (id, dependencies), fixed for the run
    MAX_RETRIES,         \* valves.MAX_RETRIES
    CONCURRENT_ACTIONS,  \* valves.CONCURRENT_ACTIONS
    status,              \* action.status, by position in plan.actions
    output,              \* action.output, by position (0 is None)
    results,             \* execute_plan: results, by id (0 is absent)
    in_progress,         \* execute_plan: in_progress (set of ids)
    completed,           \* execute_plan: completed (set of ids)
    step_counter,        \* execute_plan: step_counter
    available,           \* execute_plan: available (positions, declared order)
    action,              \* execute_plan: the action popped (position, 0 if none)
    pc,                  \* position of the control flow
    reflection_attempts, \* execute_action: reflection_attempts
    last_output,         \* execute_action: last_output (0 is None)
    retval,              \* value execute_action returned (0 is None)
    execution_summary,   \* plan.execution_summary (<<>> is None)
    lastStatus,          \* last status event emitted: <<level, done>>
    genCalls,            \* history: streamed generation calls per action
    evalCalls,           \* history: evaluation calls per action
    invGen,              \* history: generation calls of the running executor
    answers,             \* history: evaluator answers of the running executor
    raisedEver,          \* history: positions whose executor has raised
    returnedEver,        \* history: positions whose executor has returned
    notYes,              \* history: some evaluation answered other than "yes"
    end_time,            \* action.end_time is stamped, by position
    lastEvent,           \* type of the last event emitted
    streamed,            \* the running generation call has emitted fragments
    attempt,             \* create_plan, synthesize_results: attempt
    planCalls,           \* history: get_completion calls of create_plan
    error,               \* exception leaving pipe: <<type, attempt it is of>>
    final_output,        \* plan.final_output (0 is None)
    synth_result         \* value synthesize_results returned (0 is None)

vars == <<plan, MAX_RETRIES, CONCURRENT_ACTIONS, status, output, results,
          in_progress, completed, step_counter, available, action, pc,
          reflection_attempts, last_output, retval, execution_summary,
          lastStatus, genCalls, evalCalls, invGen, answers, raisedEver,
          returnedEver, notYes, end_time, lastEvent, streamed, attempt,
          planCalls, error, final_output, synth_result>>

config == <<plan, MAX_RETRIES, CONCURRENT_ACTIONS>>
sched == <<results, in_progress, completed, step_counter>>
frame == <<reflection_attempts, last_output, invGen, answers>>
calls == <<genCalls, evalCalls>>
ever == <<raisedEver, returnedEver>>
outer == <<attempt, planCalls, error, final_output, synth_result>>

\* Call counts are kept as none, one, many.
Bump(n) == IF n = "none" THEN "one" ELSE "many"

Init ==
    /\ plan \in Plan
    /\ MAX_RETRIES \in 0..MaxRetriesBound
    /\ CONCURRENT_ACTIONS \in 1..MaxConcurrent
    /\ status = [a \in 1..Len(plan) |-> "pending"]
    /\ output = [a \in 1..Len(plan) |-> 0]
    /\ results = [i \in ActionIds |-> 0]
    /\ in_progress = {}
    /\ completed = {}
    /\ step_counter = 1
    /\ available = <<>>
    /\ action = 0
    /\ pc = "loop"
    /\ reflection_attempts = 0
    /\ last_output = 0
    /\ retval = 0
    /\ execution_summary = <<>>
    /\ lastStatus = <<"none", FALSE>>
    /\ genCalls = [a \in 1..Len(plan) |-> "none"]
    /\ evalCalls = [a \in 1..Len(plan) |-> "none"]
    /\ invGen = 0
    /\ answers = {}
    /\ raisedEver = {}
    /\ returnedEver = {}
    /\ notYes = FALSE
    /\ end_time = [a \in 1..Len(plan) |-> FALSE]
    /\ lastEvent = "none"
    /\ streamed = FALSE
    /\ attempt = 0
    /\ planCalls = 0
    /\ error = <<"none", 0>>
    /\ final_output = 0
    /\ synth_result = 0

\* ---------------------------------------------------------- execute_plan
can_execute_any(a) ==
    \/ plan[a].dependencies = {}
    \/ \E dep \in plan[a].dependencies : dep \in completed

\* can_execute: every dependency id is in completed.
can_execute(a) == \A dep \in plan[a].dependencies : dep \in completed

IsAvailableAgain(a) ==
    /\ plan[a].id \notin in_progress
    /\ can_execute(a)

\* The filter of the available list.
IsAvailable(a) ==
    /\ plan[a].id \notin completed
    /\ plan[a].id \notin in_progress
    /\ can_execute(a)

RECURSIVE FilterReversed(_, _)
FilterReversed(k, n) ==
    IF k > n THEN <<>>
    ELSE FilterReversed(k + 1, n) \o (IF IsAvailable(k) THEN <<k>> ELSE <<>>)

RECURSIVE Filter(_, _)
Filter(k, n) ==
    IF k > n THEN <<>>
    ELSE (IF IsAvailable(k) THEN <<k>> ELSE <<>>) \o Filter(k + 1, n)

\* available: the ready actions, in declared order.
Available == Filter(1, Len(plan))

\* generate_mermaid reads plan.actions[0]: it raises on a plan without actions.
MermaidRaises == Len(plan) = 0

\* The head of the outer loop: the loop test, the diagram, the available list
\* and the exits.
LoopHead ==
    /\ pc = "loop"
    /\ IF Cardinality(completed) < Len(plan)
       THEN IF Available = <<>>
            THEN /\ available' = <<>>
                 /\ pc' = IF in_progress = {} THEN "summary" ELSE "loop"
            ELSE /\ available' = Available
                 /\ pc' = "admit"
       ELSE /\ pc' = "summary"
            /\ UNCHANGED available
    /\ lastEvent' = IF Cardinality(completed) < Len(plan) THEN "replace"
                    ELSE lastEvent
    /\ UNCHANGED outer
    /\ UNCHANGED <<config, sched, status, output, action, frame, retval,
                   execution_summary, lastStatus, calls, ever, notYes,
                   end_time, streamed>>

\* Whether the inner loop admits another action.
SlotFree == Cardinality(in_progress) < CONCURRENT_ACTIONS

\* The inner loop: admit the head of available while a slot is free, and call
\* execute_action on it (up to its attempt loop); otherwise back to the head
\* of the outer loop.
Admit ==
    /\ pc = "admit"
    /\ IF available # <<>> /\ SlotFree
       THEN /\ action' = Head(available)
            /\ available' = Tail(available)
            /\ in_progress' = in_progress \cup {plan[Head(available)].id}
            /\ status' = [status EXCEPT ![Head(available)] = "in_progress"]
            /\ reflection_attempts' = 0
            /\ last_output' = 0
            /\ pc' = "attempt"
       ELSE /\ pc' = "loop"
            /\ UNCHANGED <<action, available, in_progress, status,
                           reflection_attempts, last_output>>
    /\ UNCHANGED outer
    /\ UNCHANGED <<config, output, results, completed, step_counter, retval,
                   execution_summary, lastStatus, invGen, answers, calls,
                   ever, notYes, end_time, lastEvent, streamed>>

\* ------------------------------------------------------- execute_action
\* Head of the reflection loop: the loop test, the "Starting" status event and
\* the status reset; past the loop the safeguard returns last_output.
AttemptHead ==
    /\ pc = "attempt"
    /\ IF reflection_attempts <= MAX_RETRIES
       THEN /\ lastStatus' = <<"info", FALSE>>
            /\ lastEvent' = "replace"
            /\ status' = [status EXCEPT ![action] = "in_progress"]
            /\ pc' = "gen"
            /\ UNCHANGED retval
       ELSE /\ retval' = last_output
            /\ pc' = "returned"
            /\ UNCHANGED <<lastStatus, lastEvent, status>>
    /\ UNCHANGED outer
    /\ UNCHANGED <<config, sched, output, available, action, frame,
                   execution_summary, calls, ever, notYes, end_time,
                   streamed>>

\* The streamed generation yields a fragment: it is forwarded as a message
\* event.
GenerateChunk ==
    /\ pc = "gen"
    /\ lastEvent' = "message"
    /\ streamed' = TRUE
    /\ UNCHANGED outer
    /\ UNCHANGED <<config, sched, status, output, available, action, pc,
                   frame, retval, execution_summary, lastStatus, calls, ever,
                   notYes, end_time>>

\* The streamed generation returns: the text of this call is stored as
\* action.output and last_output.  A text is named by the number of the call
\* inside this executor invocation.
GenerateOk ==
    /\ pc = "gen"
    /\ genCalls' = [genCalls EXCEPT ![action] = Bump(@)]
    /\ invGen' = invGen + 1
    /\ output' = [output EXCEPT ![action] = invGen + 1]
    /\ last_output' = invGen + 1
    /\ lastStatus' = <<"info", FALSE>>
    /\ lastEvent' = "status"
    /\ streamed' = FALSE
    /\ pc' = "eval"
    /\ UNCHANGED outer
    /\ UNCHANGED <<config, sched, status, available, action,
                   reflection_attempts, answers, retval, execution_summary,
                   evalCalls, ever, notYes, end_time>>

NoStamp(a) == end_time

\* action.end_time = datetime.now()...
Stamp(a) == [end_time EXCEPT ![a] = TRUE]

OutputClearedOnFail == [output EXCEPT ![action] = 0]

\* The failure handlers leave action.output as it is.
OutputOnFail == output

\* What both failure handlers of execute_action do before the exception
\* leaves it: status failed, end_time, an error event with done=true.
Fail ==
    /\ status' = [status EXCEPT ![action] = "failed"]
    /\ end_time' = Stamp(action)
    /\ output' = OutputOnFail
    /\ lastStatus' = <<"error", TRUE>>
    /\ lastEvent' = "status"
    /\ raisedEver' = raisedEver \cup {action}
    /\ pc' = "raised"

\* The streamed generation fails.
GenerateFails ==
    /\ pc = "gen"
    /\ genCalls' = [genCalls EXCEPT ![action] = Bump(@)]
    /\ invGen' = invGen + 1
    /\ Fail
    /\ UNCHANGED outer
    /\ UNCHANGED <<config, sched, available, action,
                   reflection_attempts, last_output, answers, retval,
                   execution_summary, evalCalls, returnedEver, notYes,
                   streamed>>

AttemptsLeftShort == reflection_attempts + 1 < MAX_RETRIES

\* Whether a rejected attempt is followed by another one.
AttemptsLeft == reflection_attempts < MAX_RETRIES

\* The evaluation answers.  "no" with attempts left: warning, next attempt.
\* "no" with none left: completed with a warning, last_output returned.
\* Any other answer: completed, success, action.output returned.
Evaluate(ans) ==
    /\ pc = "eval"
    /\ evalCalls' = [evalCalls EXCEPT ![action] = Bump(@)]
    /\ answers' = answers \cup {ans}
    /\ notYes' = (notYes \/ ans # "yes")
    /\ IF ans = "no"
       THEN IF AttemptsLeft
            THEN /\ lastStatus' = <<"warning", FALSE>>
                 /\ reflection_attempts' = reflection_attempts + 1
                 /\ pc' = "attempt"
                 /\ UNCHANGED <<status, retval, end_time>>
            ELSE /\ status' = [status EXCEPT ![action] = "completed"]
                 /\ end_time' = Stamp(action)
                 /\ lastStatus' = <<"warning", TRUE>>
                 /\ retval' = last_output
                 /\ pc' = "returned"
                 /\ UNCHANGED reflection_attempts
       ELSE /\ status' = [status EXCEPT ![action] = "completed"]
            /\ end_time' = Stamp(action)
            /\ lastStatus' = <<"success", TRUE>>
            /\ retval' = output[action]
            /\ pc' = "returned"
            /\ UNCHANGED reflection_attempts
    /\ lastEvent' = "status"
    /\ UNCHANGED outer
    /\ UNCHANGED <<config, sched, output, available, action, last_output,
                   invGen, execution_summary, genCalls, ever, streamed>>

\* The evaluation call fails.
EvaluateFails ==
    /\ pc = "eval"
    /\ evalCalls' = [evalCalls EXCEPT ![action] = Bump(@)]
    /\ Fail
    /\ UNCHANGED outer
    /\ UNCHANGED <<config, sched, available, action, frame, retval,
                   execution_summary, genCalls, returnedEver, notYes,
                   streamed>>

\* ------------------------------------------- execute_plan, after the call
\* The frame of execute_action is gone and the loop variable is dead until
\* the next pop.
Unwind ==
    /\ action' = 0
    /\ reflection_attempts' = 0
    /\ last_output' = 0
    /\ invGen' = 0
    /\ answers' = {}
    /\ retval' = 0
    /\ streamed' = FALSE

\* execute_action returned: store the result, complete the id, free the slot.
Returned ==
    /\ pc = "returned"
    /\ results' = [results EXCEPT ![plan[action].id] = retval]
    /\ completed' = completed \cup {plan[action].id}
    /\ step_counter' = step_counter + 1
    /\ in_progress' = in_progress \ {plan[action].id}
    /\ returnedEver' = returnedEver \cup {action}
    /\ Unwind
    /\ pc' = "admit"
    /\ UNCHANGED outer
    /\ UNCHANGED <<config, status, output, available, execution_summary,
                   lastStatus, calls, raisedEver, notYes, end_time,
                   lastEvent>>

SlotsKeptOnRaise == in_progress

\* in_progress.remove(action.id), reached after the except clause.
SlotsAfterRaise == in_progress \ {plan[action].id}

\* execute_action raised: the exception is logged, the slot is freed.
Raised ==
    /\ pc = "raised"
    /\ in_progress' = SlotsAfterRaise
    /\ Unwind
    /\ pc' = "admit"
    /\ UNCHANGED outer
    /\ UNCHANGED <<config, results, completed, step_counter, status, output,
                   available, execution_summary, lastStatus, calls, ever,
                   notYes, end_time, lastEvent>>

failed_by_status == Cardinality({a \in 1..Len(plan) : status[a] = "failed"})

\* execution_summary["failed_steps"]
failed_steps == Len(plan) - Cardinality(completed)

\* After the loop: the final diagram (which raises on an empty plan) and the
\* execution summary.
Summarize ==
    /\ pc = "summary"
    /\ IF MermaidRaises
       THEN /\ pc' = "crashed"
            /\ UNCHANGED <<execution_summary, lastEvent>>
       ELSE /\ lastEvent' = "replace"
            /\ execution_summary' =
                   <<[total_steps |-> Len(plan),
                      completed_steps |-> Cardinality(completed),
                      failed_steps |-> failed_steps]>>
            /\ pc' = "done"
    /\ UNCHANGED outer
    /\ UNCHANGED <<config, sched, status, output, available, action, frame,
                   retval, lastStatus, calls, ever, notYes, end_time,
                   streamed>>

Next ==
    \/ LoopHead
    \/ Admit
    \/ AttemptHead
    \/ GenerateChunk
    \/ GenerateOk
    \/ GenerateFails
    \/ \E ans \in Answers : Evaluate(ans)
    \/ EvaluateFails
    \/ Returned
    \/ Raised
    \/ Summarize

Spec == Init /\ [][Next]_vars

\* The event loop runs the one control flow as long as a step is enabled, and
\* every Generation Client call returns or fails.
FairSpec == Spec /\ WF_vars(Next)

\* ------------------------------------- a Generation Client call that hangs
\* The streamed generation never returns and never fails: execute_action
\* stays in its await, and nothing in execute_plan wraps the call in a
\* deadline (valves.ACTION_TIMEOUT is read nowhere).
GenerationHangs ==
    /\ pc = "gen"
    /\ genCalls' = [genCalls EXCEPT ![action] = Bump(@)]
    /\ invGen' = invGen + 1
    /\ pc' = "hung"
    /\ UNCHANGED outer
    /\ UNCHANGED <<config, sched, status, output, available, action,
                   reflection_attempts, last_output, answers, retval,
                   execution_summary, lastStatus, evalCalls, ever, notYes,
                   end_time, lastEvent, streamed>>

HangNext == Next \/ GenerationHangs

\* The same run with a Generation Client whose calls may also hang.
HangSpec == Init /\ [][HangNext]_vars /\ WF_vars(HangNext)

\* ================================================================== pipe
\* The ways an attempt of create_plan fails: the Generation Client call, the
\* JSON parse of its response, the validation of the parsed plan.
FailKinds == {"ClientError", "JSONDecodeError", "ValidationError"}

\* pipe is called: no plan yet.
PipeInit ==
    /\ plan = <<>>
    /\ MAX_RETRIES \in 0..PipeRetriesBound
    /\ CONCURRENT_ACTIONS \in 1..MaxConcurrent
    /\ status = <<>>
    /\ output = <<>>
    /\ results = [i \in ActionIds |-> 0]
    /\ in_progress = {}
    /\ completed = {}
    /\ step_counter = 1
    /\ available = <<>>
    /\ action = 0
    /\ pc = "pipe"
    /\ reflection_attempts = 0
    /\ last_output = 0
    /\ retval = 0
    /\ execution_summary = <<>>
    /\ lastStatus = <<"none", FALSE>>
    /\ genCalls = <<>>
    /\ evalCalls = <<>>
    /\ invGen = 0
    /\ answers = {}
    /\ raisedEver = {}
    /\ returnedEver = {}
    /\ notYes = FALSE
    /\ end_time = <<>>
    /\ lastEvent = "none"
    /\ streamed = FALSE
    /\ attempt = 0
    /\ planCalls = 0
    /\ error = <<"none", 0>>
    /\ final_output = 0
    /\ synth_result = 0

emit_silent(level, done) == UNCHANGED <<lastStatus, lastEvent>>

\* emit_status(level, ..., done)
emit_status(level, done) ==
    /\ lastStatus' = <<level, done>>
    /\ lastEvent' = "status"

\* pipe: "Creating execution plan...", then create_plan is entered.
PipeStart ==
    /\ pc = "pipe"
    /\ emit_status("info", FALSE)
    /\ attempt' = 0
    /\ pc' = "compile"
    /\ UNCHANGED <<config, sched, status, output, available, action, frame,
                   retval, execution_summary, calls, ever, notYes, end_time,
                   streamed, planCalls, error, final_output, synth_result>>

\* create_plan: for attempt in range(MAX_RETRIES); past the loop (reached
\* only without any attempt) the RuntimeError.
CompileHead ==
    /\ pc = "compile"
    /\ IF attempt < MAX_RETRIES
       THEN /\ pc' = "ask"
            /\ UNCHANGED error
       ELSE /\ error' = <<"RuntimeError", 0>>
            /\ pc' = "aborted"
    /\ UNCHANGED <<config, sched, status, output, available, action, frame,
                   retval, execution_summary, lastStatus, calls, ever, notYes,
                   end_time, lastEvent, streamed, attempt, planCalls,
                   final_output, synth_result>>

\* The response parses and validates as a plan p: create_plan returns
\* Plan(**plan_dict), every action pending and without output.
CompileOk ==
    /\ pc = "ask"
    /\ planCalls' = planCalls + 1
    /\ \E p \in Plan :
           /\ plan' = p
           /\ status' = [a \in 1..Len(p) |-> "pending"]
           /\ output' = [a \in 1..Len(p) |-> 0]
           /\ end_time' = [a \in 1..Len(p) |-> FALSE]
           /\ genCalls' = [a \in 1..Len(p) |-> "none"]
           /\ evalCalls' = [a \in 1..Len(p) |-> "none"]
    /\ pc' = "compiled"
    /\ UNCHANGED <<MAX_RETRIES, CONCURRENT_ACTIONS, sched, available, action,
                   frame, retval, execution_summary, lastStatus, ever, notYes,
                   lastEvent, streamed, attempt, error, final_output,
                   synth_result>>

\* The attempt fails: before the last attempt, sleep and go on; at the last
\* attempt the bare raise re-raises the exception of this attempt.
CompileFails ==
    /\ pc = "ask"
    /\ planCalls' = planCalls + 1
    /\ IF attempt < MAX_RETRIES - 1
       THEN /\ attempt' = attempt + 1
            /\ pc' = "compile"
            /\ UNCHANGED error
       ELSE /\ \E kind \in FailKinds : error' = <<kind, attempt + 1>>
            /\ pc' = "aborted"
            /\ UNCHANGED attempt
    /\ UNCHANGED <<config, sched, status, output, available, action, frame,
                   retval, execution_summary, lastStatus, calls, ever, notYes,
                   end_time, lastEvent, streamed, final_output, synth_result>>

\* pipe, after create_plan: the initial diagram (which raises on a plan
\* without actions), "Executing plan...", then execute_plan is entered.  The
\* frame of create_plan is gone.
FirstMermaid ==
    /\ pc = "compiled"
    /\ IF MermaidRaises
       THEN /\ error' = <<"IndexError", 0>>
            /\ pc' = "aborted"
            /\ UNCHANGED <<lastStatus, lastEvent>>
       ELSE /\ emit_status("info", FALSE)
            /\ pc' = "loop"
            /\ UNCHANGED error
    /\ attempt' = 0
    /\ planCalls' = 0
    /\ UNCHANGED <<config, sched, status, output, available, action, frame,
                   retval, execution_summary, calls, ever, notYes, end_time,
                   streamed, final_output, synth_result>>

\* pipe, after execute_plan: "Creating final result...", then
\* synthesize_results is entered.
SynthStart ==
    /\ pc = "done"
    /\ emit_status("info", FALSE)
    /\ attempt' = 0
    /\ pc' = "synth"
    /\ UNCHANGED <<config, sched, status, output, available, action, frame,
                   retval, execution_summary, calls, ever, notYes, end_time,
                   streamed, planCalls, error, final_output, synth_result>>

\* synthesize_results: for attempt in range(MAX_RETRIES).  The first
\* statement of the try block formats reflection_attempts, a name that is
\* bound neither in this function nor in the module: it raises NameError
\* before anything is emitted or called, and the handler emits the
\* "Retrying" error event.  Past the loop the function ends without a return
\* statement.
SynthAttempt ==
    /\ pc = "synth"
    /\ IF attempt < MAX_RETRIES
       THEN /\ emit_status("error", FALSE)
            /\ pc' = "synth_except"
            /\ UNCHANGED synth_result
       ELSE /\ synth_result' = 0
            /\ pc' = "synthesized"
            /\ UNCHANGED <<lastStatus, lastEvent>>
    /\ UNCHANGED <<config, sched, status, output, available, action, frame,
                   retval, execution_summary, calls, ever, notYes, end_time,
                   streamed, attempt, planCalls, error, final_output>>

SynthExhaustedRaises == "aborted"

\* At the last attempt the handler returns: the exception does not leave
\* synthesize_results.
SynthExhausted == "synthesized"

\* The rest of the handler: before the last attempt, sleep and go on; at the
\* last attempt the final error event and return plan.final_output.
SynthExcept ==
    /\ pc = "synth_except"
    /\ IF attempt < MAX_RETRIES - 1
       THEN /\ attempt' = attempt + 1
            /\ pc' = "synth"
            /\ UNCHANGED <<lastStatus, lastEvent, synth_result>>
       ELSE /\ emit_status("error", TRUE)
            /\ synth_result' = final_output
            /\ pc' = SynthExhausted
            /\ UNCHANGED attempt
    /\ UNCHANGED <<config, sched, status, output, available, action, frame,
                   retval, execution_summary, calls, ever, notYes, end_time,
                   streamed, planCalls, error, final_output>>

\* pipe, after synthesize_results (its value is dropped): "Execution
\* complete".
PipeFinish ==
    /\ pc = "synthesized"
    /\ emit_status("success", TRUE)
    /\ pc' = "finished"
    /\ UNCHANGED <<config, sched, status, output, available, action, frame,
                   retval, execution_summary, calls, ever, notYes, end_time,
                   streamed, attempt, planCalls, error, final_output,
                   synth_result>>

PipeNext ==
    \/ PipeStart
    \/ CompileHead
    \/ CompileOk
    \/ CompileFails
    \/ FirstMermaid
    \/ Next
    \/ SynthStart
    \/ SynthAttempt
    \/ SynthExcept
    \/ PipeFinish

\* One call of pipe.
PipeSpec == PipeInit /\ [][PipeNext]_vars

\* ================================================================ claims
Positions == 1..Len(plan)
InExecutor == pc \in {"attempt", "gen", "eval", "returned", "raised"}

\* C1: an action is dispatched to execute_action (and gets a status other
\* than pending) only when every id in its dependencies is in completed.
C1_DispatchedOnlyWhenReady ==
    \A a \in Positions :
        (status[a] # "pending" \/ (InExecutor /\ action = a))
            => plan[a].dependencies \subseteq completed

\* An action with two dependencies has been dispatched and is generating.
C1_Witness ==
    /\ pc = "gen"
    /\ Cardinality(plan[action].dependencies) = 2
    /\ status[action] = "in_progress"

\* C2: the status of an action never moves backward: once completed or failed
\* it never becomes pending or in_progress again.
C2_StatusNeverBackward ==
    [][\A a \in Positions :
          status[a] \in {"completed", "failed"}
              => status'[a] \notin {"pending", "in_progress"}]_vars

\* C3: when a generation attempt of an action fails the action is marked
\* failed at once, and no further generation call is made for an action whose
\* executor has raised.
C3_FailedAtOnceAndNeverRetried ==
    [][/\ (pc = "gen" /\ pc' = "raised") => status'[action] = "failed"
       /\ \A a \in raisedEver : genCalls'[a] = genCalls[a]]_vars

\* C4: with fair scheduling and a Generation Client whose calls return or
\* fail, the loop of execute_plan ends and execution_summary is built (stated
\* for plans with at least one action).
C4_LoopTerminates ==
    Len(plan) > 0 => <>(pc = "done" /\ execution_summary # <<>>)

\* C5: an executor whose evaluator answered "no" on every attempt returns
\* after exactly MAX_RETRIES+1 generation calls, with status completed, a
\* final warning event, and the text of the last generation call.
C5_AlwaysNoCompletesWithWarning ==
    (pc = "returned" /\ answers = {"no"}) =>
        /\ invGen = MAX_RETRIES + 1
        /\ status[action] = "completed"
        /\ lastStatus = <<"warning", TRUE>>
        /\ retval = invGen

\* An executor returns after a rejected attempt and a rejected retry.
C5_Witness ==
    /\ pc = "returned"
    /\ answers = {"no"}
    /\ invGen >= 2

\* The dependency relation of the plan has no cycle.
Acyclic ==
    \E r \in [Positions -> Positions] :
        \A a, b \in Positions :
            plan[b].id \in plan[a].dependencies => r[b] < r[a]

\* Every dependency id is the id of an action of the plan.
DepsExist ==
    \A a \in Positions :
        plan[a].dependencies \subseteq {plan[b].id : b \in Positions}

\* C6: for an acyclic plan whose dependency ids exist, a run in which no call
\* failed and every evaluation answered "yes" ends with every action
\* completed after exactly one generation call and one evaluation call each.
C6_CleanRunOneCallEach ==
    (pc = "done" /\ Acyclic /\ DepsExist /\ raisedEver = {} /\ ~notYes) =>
        \A a \in Positions :
            /\ status[a] = "completed"
            /\ genCalls[a] = "one"
            /\ evalCalls[a] = "one"

\* A clean run of a three-action plan with dependencies has ended.
C6_Witness ==
    /\ pc = "done"
    /\ Acyclic /\ DepsExist /\ raisedEver = {} /\ ~notYes
    /\ Len(plan) = 3
    /\ plan[3].dependencies # {}

\* C7: at most CONCURRENT_ACTIONS ids are in flight, and the slot of an
\* executor that returned or raised has been released: only the running
\* executor's id is in flight.
C7_InFlightBounded ==
    /\ Cardinality(in_progress) <= CONCURRENT_ACTIONS
    /\ \A a \in Positions :
           plan[a].id \in in_progress => (InExecutor /\ action = a)

\* An executor has returned, another has raised, and no slot is held.
C7_Witness ==
    /\ pc = "admit"
    /\ returnedEver # {}
    /\ raisedEver \ returnedEver # {}
    /\ in_progress = {}

\* The plan A (deps []), B (deps [A]), C (deps [A]).
Diamond ==
    <<[id |-> "A", dependencies |-> {}],
      [id |-> "B", dependencies |-> {"A"}],
      [id |-> "C", dependencies |-> {"A"}]>>

\* C8: in the plan A, B (deps [A]), C (deps [A]) with two slots and no
\* failure, B and C are admitted together: neither completes before the other
\* has been admitted.
C8_AdmittedTogether ==
    (plan = Diamond /\ CONCURRENT_ACTIONS = 2 /\ raisedEver = {}) =>
        /\ "B" \in completed => "C" \in in_progress \cup completed
        /\ "C" \in completed => "B" \in in_progress \cup completed

\* C9: when execute_plan has ended, completed_steps + failed_steps equals
\* total_steps, total_steps is the number of actions and completed_steps the
\* number of actions whose executor returned.
C9_SummaryAddsUp ==
    pc = "done" =>
        /\ execution_summary[1].completed_steps
               + execution_summary[1].failed_steps
           = execution_summary[1].total_steps
        /\ execution_summary[1].total_steps = Len(plan)
        /\ execution_summary[1].completed_steps = Cardinality(returnedEver)

\* A run has ended with one action completed and another one not.
C9_Witness ==
    /\ pc = "done"
    /\ execution_summary[1].completed_steps >= 1
    /\ execution_summary[1].failed_steps >= 1

\* The action at position b lists an id that no action of the plan carries.
Dangling(b) == \E z \in plan[b].dependencies : \A a \in Positions : plan[a].id # z

\* C10: an action with a dependency id unknown to the plan is never available
\* and never executed and stays pending, and the run ends with
\* failed_steps >= 1.
C10_DanglingStaysPendingRunEnds ==
    /\ [](\A b \in Positions :
              Dangling(b) =>
                  /\ status[b] = "pending"
                  /\ genCalls[b] = "none"
                  /\ \A k \in 1..Len(available) : available[k] # b)
    /\ (\E b \in Positions : Dangling(b)) =>
           <>(pc = "done" /\ execution_summary # <<>>
                          /\ execution_summary[1].failed_steps >= 1)

\* C11: an action whose executor has raised is never added to completed, and
\* no action that depends on it is ever started.
C11_RaisedNeverCompleted ==
    \A a \in raisedEver :
        /\ plan[a].id \notin completed
        /\ \A b \in Positions :
               plan[a].id \in plan[b].dependencies => status[b] = "pending"

\* C20: an executor ends with the success event and status completed only if
\* the evaluator's answer for that attempt is "yes" (the answers before it in
\* the invocation are "no").
C20_SuccessOnlyOnYes ==
    (pc = "returned" /\ lastStatus = <<"success", TRUE>>) =>
        /\ status[action] = "completed"
        /\ answers \ {"no"} = {"yes"}

\* C15: an executor whose generation call never returns is ended by the
\* ACTION_TIMEOUT deadline: the invocation ends as a failure and the scheduler
\* goes on.
C15_HungCallTimesOut == (pc = "hung") ~> (pc = "raised")

\* C16: when execute_action propagates a failure, the action is failed, its
\* end_time is stamped and the last event emitted, after every fragment, is
\* the error status with done=true.
C16_FailureMarkedBeforeRaise ==
    pc = "raised" =>
        /\ status[action] = "failed"
        /\ end_time[action]
        /\ lastEvent = "status"
        /\ lastStatus = <<"error", TRUE>>

\* A generation call has failed after it had streamed fragments.
C16_Witness ==
    /\ pc = "raised"
    /\ streamed

\* C17 as stated: action.output is written at most once, and only when the
\* action becomes completed.
C17_OutputWrittenOnceOnCompletion ==
    [][\A a \in Positions :
          output'[a] # output[a]
              => (output[a] = 0 /\ status'[a] = "completed")]_vars

\* C17 as amended: action.output is written by the generation call that
\* returns, before its evaluation, and at no other moment; an action that
\* becomes completed already holds the text of its last generation call.
C17_OutputWrittenByEachGeneration ==
    [][\A a \in Positions :
          /\ output'[a] # output[a]
                => (action = a /\ pc = "gen" /\ pc' = "eval"
                               /\ output'[a] = last_output')
          /\ (status[a] # "completed" /\ status'[a] = "completed")
                => (output'[a] = output[a] /\ output[a] = last_output)]_vars

\* An action has failed in the evaluation of its retry and keeps the output
\* of that attempt.
C17_Witness ==
    /\ pc = "raised"
    /\ reflection_attempts >= 1
    /\ status[action] = "failed"
    /\ output[action] = 2

\* C12 (first two parts): create_plan makes at most MAX_RETRIES calls, and
\* returns at the first response that parses and validates.
CompileCallsBounded ==
    /\ planCalls <= MAX_RETRIES
    /\ pc = "compiled" => planCalls = attempt + 1

\* C12: create_plan makes at most MAX_RETRIES calls, returns at the first
\* valid response, and when it ends without a Plan the exception that leaves
\* it is a PlanCompilationError that carries the error of the last attempt.
C12_CompileFailsWithPlanCompilationError ==
    /\ CompileCallsBounded
    /\ (pc = "aborted" /\ error[1] # "IndexError")
           => error = <<"PlanCompilationError", MAX_RETRIES>>

\* C13: when no Generation Client call has failed and every evaluation has
\* answered yes, synthesize_results returns a text, the one it stored in
\* plan.final_output.
C13_CleanSynthesisReturnsText ==
    (pc = "synthesized" /\ raisedEver = {} /\ ~notYes)
        => (final_output # 0 /\ synth_result = final_output)

C19_AbortAfterErrorEvent ==
    pc = "aborted" => lastStatus = <<"error", TRUE>>

\* The executor is about to re-raise after a failed evaluation call: the
\* generation call of this attempt, the last one made, had returned.
EvaluationFailed ==
    /\ pc = "raised"
    /\ last_output = invGen

\* C21: a failed evaluation call ends the executor invocation as a failed
\* generation does: the action is failed, end_time is stamped, the failure
\* reaches the scheduler, and the invocation makes no further generation or
\* evaluation call, even with attempts left.
C21_EvaluationFailureIsTerminal ==
    [][/\ (pc = "eval" /\ pc' \notin {"attempt", "returned"})
              => /\ pc' = "raised"
                 /\ status'[action] = "failed"
                 /\ end_time'[action]
                 /\ lastStatus' = <<"error", TRUE>>
                 /\ genCalls' = genCalls
       /\ EvaluationFailed
              => /\ pc' = "admit"
                 /\ action' = 0
                 /\ calls' = calls
                 /\ completed' = completed
                 /\ results' = results
                 /\ status' = status]_vars

\* An evaluation call has failed while a retry attempt remained.
C21_Witness ==
    /\ EvaluationFailed
    /\ reflection_attempts < MAX_RETRIES
    /\ status[action] = "failed"

C23_OneInFlight ==
    /\ Cardinality(in_progress) <= 1
    /\ in_progress # {} => (InExecutor /\ in_progress = {plan[action].id})
    /\ \A a \in Positions :
           status[a] = "in_progress" => (InExecutor /\ action = a)

\* Two slots are configured and a second ready action waits while the
\* executor of the first one is generating.
C23_Witness ==
    /\ CONCURRENT_ACTIONS = 2
    /\ pc = "gen"
    /\ available # <<>>
    /\ in_progress = {plan[action].id}

\* C24: at the top of every scheduler iteration and when the summary is
\* built, in_progress is empty, completed is the key set of results, and an
\* id is in completed exactly when its action has status completed.
C24_SchedulerSetsAgree ==
    pc \in {"loop", "summary", "done"} =>
        /\ in_progress = {}
        /\ completed = {i \in ActionIds : results[i] # 0}
        /\ \A a \in Positions :
               plan[a].id \in completed <=> status[a] = "completed"

\* The top of an iteration after one action has completed and another one
\* has failed.
C24_Witness ==
    /\ pc = "loop"
    /\ \E a \in Positions : status[a] = "completed" /\ results[plan[a].id] # 0
    /\ \E b \in Positions : status[b] = "failed"

\* C25: on a plan without actions execute_plan ends normally: it does not
\* raise, and past the loop the summary it has set counts 0 steps, 0
\* completed and 0 failed.
C25_EmptyPlanEndsNormally ==
    Len(plan) = 0 =>
        \/ pc \in {"loop", "summary"}
        \/ /\ pc = "done"
           /\ execution_summary =
                  <<[total_steps |-> 0, completed_steps |-> 0,
                     failed_steps |-> 0]>>

\* Positions of pipe inside and after synthesize_results.
Synthesizing == pc \in {"synth", "synth_except", "synthesized", "finished"}

\* C26: once create_plan has returned and execute_plan has ended, pipe goes
\* on to the synthesis and to its end: the scheduler runs on the compiled
\* plan, the synthesis starts only after execution_summary is set, no
\* exception leaves pipe from there on, every position before the end has a
\* next step, and the last event at the end is the success status with
\* done=true.
C26_PhasesInOrderThenSuccess ==
    /\ pc \in {"loop", "admit", "summary"} \cup {"done"}
           => (Len(plan) >= 1 /\ error = <<"none", 0>>)
    /\ Synthesizing => execution_summary # <<>>
    /\ execution_summary # <<>>
           => (pc = "done" \/ Synthesizing) /\ error = <<"none", 0>>
    /\ (execution_summary # <<>> /\ pc # "finished")
           => ENABLED (SynthStart \/ SynthAttempt \/ SynthExcept \/ PipeFinish)
    /\ pc = "finished"
           => (lastStatus = <<"success", TRUE>> /\ lastEvent = "status")

\* pipe has ended after a run in which an executor raised, an action stayed
\* pending and the synthesis produced no final_output.
C26_Witness ==
    /\ pc = "finished"
    /\ raisedEver # {}
    /\ \E a \in Positions : status[a] = "pending"
    /\ final_output = 0
    /\ lastStatus = <<"success", TRUE>>

====
